---- MODULE Spec2Model ----
(***************************************************************************)
(* Element registration, disambiguation and design-system scoping of       *)
(* packages/web-components/fast-foundation/src/design-system/              *)
(* design-system.ts, as a state machine.                                   *)
(*                                                                         *)
(* The two module-level maps (elementTypesByTag, elementTagsByType), the   *)
(* module-level rootDesignSystem, the DefaultDesignSystem instances and    *)
(* the position of an in-flight register() call are the state.  The DI     *)
(* container (../di/di) and the element definition primitive               *)
(* (FASTElementDefinition.define) are collaborators outside the file: the  *)
(* container is modelled from its documented contract, define() is a log.  *)
(***************************************************************************)
EXTENDS Integers, Sequences, FiniteSets, TLC

(* ------------------------------ bounds --------------------------------- *)

\* registrations handed to one register(...registrations) call
MaxRegistrations == 2
\* register() calls in one behaviour
MaxRegisterCalls == 2
\* tryDefineElement calls in one behaviour
MaxTryDefineCalls == 3
\* getOrCreate / responsibleFor calls in one behaviour of the locator
MaxLocatorCalls == 4

(* --------------------------- value universe ---------------------------- *)

\* A Constructable is an identity: the class it was written as (base) and,
\* for a class synthesized by `class extends type {}`, the serial of the
\* synthesis (id > 0).  Classes written in source have id = 0.
Class(base) == [base |-> base, id |-> 0]

\* the absent value (undefined): what Map.get gives for a missing key and
\* what an omitted optional parameter holds
Undefined == Class("undefined")

FoundationElement == Class("FoundationElement")
TypeA == Class("TypeA")
TypeB == Class("TypeB")

\* element types passed to tryDefineElement; TypeB is written as a class
\* extending TypeA
ElementTypes == {TypeA, TypeB, FoundationElement}
\* baseClass values passed to tryDefineElement: omitted, or the class the
\* element type extends
BaseClasses == {Undefined, TypeA}
\* element names requested
ElementNames == {"foo-button", "foo-card"}
\* what an ElementDefinitionCallback does with its entry: call
\* x.defineElement(...) (fills entry.definition) or only configure
Callbacks == {"defineElement", "configureOnly"}

\* ElementDefinitionParams; a baseClass is given with the type extending it
ElementDefinitionParams ==
    {p \in [name : ElementNames, type : ElementTypes,
            baseClass : BaseClasses, callback : Callbacks] :
        p.baseClass # Undefined => p.type = TypeB}

(* ------------------------------ Map ------------------------------------ *)

EmptyMap == [k \in {} |-> Undefined]
MapHas(m, k) == k \in DOMAIN m
MapGet(m, k) == IF k \in DOMAIN m THEN m[k] ELSE Undefined
\* Map.get on the type-to-tag map: a tag name, or the absent value for one
UndefinedTag == "undefined"
TagGet(m, k) == IF k \in DOMAIN m THEN m[k] ELSE UndefinedTag
MapSet(m, k, v) == [x \in DOMAIN m \cup {k} |-> IF x = k THEN v ELSE m[x]]

(* ----------------------- ElementDisambiguation ------------------------- *)

\* An ElementDisambiguationResult: a string (the new name), or one of the two
\* sentinels of the frozen ElementDisambiguation object.
DefinitionCallbackOnly == [kind |-> "definitionCallbackOnly", name |-> ""]
IgnoreDuplicate == [kind |-> "ignoreDuplicate", name |-> ""]
NewName(s) == [kind |-> "string", name |-> s]
\* a result outside ElementDisambiguationResult: undefined.  The default
\* case of the switch takes it for the new name (`result as string`).
InvalidResult == [kind |-> "undefined", name |-> UndefinedTag]
\* the callback does not return: it throws
Throw == [kind |-> "throw", name |-> ""]

\* The disambiguation callbacks a design system is configured with.  The
\* first is the field initializer of DefaultDesignSystem.disambiguate; the
\* others are callbacks handed to withElementDisambiguation.
DefaultDisambiguate == "default"
Disambiguators ==
    {DefaultDisambiguate, "ignore", "rename", "renameThenIgnore",
     "renameThenCallbackOnly"}

\* disambiguate(nameAttempt, typeAttempt, existingType)
Disambiguate(callback, nameAttempt, typeAttempt, existingType) ==
    CASE callback = DefaultDisambiguate -> DefinitionCallbackOnly
      [] callback = "ignore" -> IgnoreDuplicate
      [] callback = "rename" -> NewName(nameAttempt \o "-2")
      [] callback = "renameThenIgnore" ->
            IF nameAttempt \in ElementNames
            THEN NewName(nameAttempt \o "-2") ELSE IgnoreDuplicate
      [] callback = "renameThenCallbackOnly" ->
            IF nameAttempt \in ElementNames
            THEN NewName(nameAttempt \o "-2") ELSE DefinitionCallbackOnly
      [] callback = "invalidThenIgnore" ->
            IF nameAttempt \in ElementNames
            THEN InvalidResult ELSE IgnoreDuplicate
      [] callback = "throws" -> Throw

(* -------------------------- tryDefineElement --------------------------- *)

\* DisambiguationLoop with `needsDefine = false` missing from the
\* definitionCallbackOnly case
RECURSIVE DisambiguationLoopKeepsDefine(_, _, _, _, _)
DisambiguationLoopKeepsDefine(disambiguate, elementName, type, typesByTag, calls) ==
    IF ~MapHas(typesByTag, elementName)
    THEN [returned |-> FALSE, elementName |-> elementName,
          needsDefine |-> TRUE, calls |-> calls]
    ELSE LET typeFoundByName == MapGet(typesByTag, elementName)
             result == Disambiguate(disambiguate, elementName, type,
                                    typeFoundByName)
             called == Append(calls, [nameAttempt |-> elementName,
                                      typeAttempt |-> type,
                                      existingType |-> typeFoundByName,
                                      result |-> result])
         IN  CASE result = Throw ->
                    [returned |-> TRUE, elementName |-> elementName,
                     needsDefine |-> TRUE, calls |-> called]
               [] result = IgnoreDuplicate ->
                    [returned |-> TRUE, elementName |-> elementName,
                     needsDefine |-> TRUE, calls |-> called]
               [] result = DefinitionCallbackOnly ->
                    [returned |-> FALSE, elementName |-> elementName,
                     needsDefine |-> TRUE, calls |-> called]
               [] OTHER ->
                    DisambiguationLoopKeepsDefine(disambiguate, result.name,
                                                  type, typesByTag, called)

\* DisambiguationLoop with `typeFoundByName = void 0` in the default case:
\* the new name is not looked up
DisambiguationLoopNoLookup(disambiguate, elementName, type, typesByTag, calls) ==
    IF ~MapHas(typesByTag, elementName)
    THEN [returned |-> FALSE, elementName |-> elementName,
          needsDefine |-> TRUE, calls |-> calls]
    ELSE LET typeFoundByName == MapGet(typesByTag, elementName)
             result == Disambiguate(disambiguate, elementName, type,
                                    typeFoundByName)
             called == Append(calls, [nameAttempt |-> elementName,
                                      typeAttempt |-> type,
                                      existingType |-> typeFoundByName,
                                      result |-> result])
         IN  CASE result = Throw ->
                    [returned |-> TRUE, elementName |-> elementName,
                     needsDefine |-> TRUE, calls |-> called]
               [] result = IgnoreDuplicate ->
                    [returned |-> TRUE, elementName |-> elementName,
                     needsDefine |-> TRUE, calls |-> called]
               [] result = DefinitionCallbackOnly ->
                    [returned |-> FALSE, elementName |-> elementName,
                     needsDefine |-> FALSE, calls |-> called]
               [] OTHER ->
                    [returned |-> FALSE, elementName |-> result.name,
                     needsDefine |-> TRUE, calls |-> called]

\* DisambiguationLoop with `break` for `return` in the ignoreDuplicate case:
\* the loop goes on to the callback-only exit
RECURSIVE DisambiguationLoopIgnoreBreaks(_, _, _, _, _)
DisambiguationLoopIgnoreBreaks(disambiguate, elementName, type, typesByTag, calls) ==
    IF ~MapHas(typesByTag, elementName)
    THEN [returned |-> FALSE, elementName |-> elementName,
          needsDefine |-> TRUE, calls |-> calls]
    ELSE LET typeFoundByName == MapGet(typesByTag, elementName)
             result == Disambiguate(disambiguate, elementName, type,
                                    typeFoundByName)
             called == Append(calls, [nameAttempt |-> elementName,
                                      typeAttempt |-> type,
                                      existingType |-> typeFoundByName,
                                      result |-> result])
         IN  CASE result = Throw ->
                    [returned |-> TRUE, elementName |-> elementName,
                     needsDefine |-> TRUE, calls |-> called]
               [] result = IgnoreDuplicate ->
                    [returned |-> FALSE, elementName |-> elementName,
                     needsDefine |-> FALSE, calls |-> called]
               [] result = DefinitionCallbackOnly ->
                    [returned |-> FALSE, elementName |-> elementName,
                     needsDefine |-> FALSE, calls |-> called]
               [] OTHER ->
                    DisambiguationLoopIgnoreBreaks(disambiguate, result.name,
                                                   type, typesByTag, called)

\* The disambiguation loop: `while (typeFoundByName) { switch (result) ... }`.
\* Gives how the loop was left: returned (the function is left from inside
\* the loop: `return` for ignoreDuplicate, or the callback's exception), the
\* final elementName and needsDefine, and every call of the disambiguation
\* callback, in order: its arguments and its result.
RECURSIVE DisambiguationLoop(_, _, _, _, _)
DisambiguationLoop(disambiguate, elementName, type, typesByTag, calls) ==
    IF ~MapHas(typesByTag, elementName)
    THEN [returned |-> FALSE, elementName |-> elementName,
          needsDefine |-> TRUE, calls |-> calls]
    ELSE LET typeFoundByName == MapGet(typesByTag, elementName)
             result == Disambiguate(disambiguate, elementName, type,
                                    typeFoundByName)
             called == Append(calls, [nameAttempt |-> elementName,
                                      typeAttempt |-> type,
                                      existingType |-> typeFoundByName,
                                      result |-> result])
         IN  CASE result = Throw ->
                    [returned |-> TRUE, elementName |-> elementName,
                     needsDefine |-> TRUE, calls |-> called]
               [] result = IgnoreDuplicate ->
                    [returned |-> TRUE, elementName |-> elementName,
                     needsDefine |-> TRUE, calls |-> called]
               [] result = DefinitionCallbackOnly ->
                    [returned |-> FALSE, elementName |-> elementName,
                     needsDefine |-> FALSE, calls |-> called]
               [] OTHER ->
                    DisambiguationLoop(disambiguate, result.name, type,
                                       typesByTag, called)

\* NeedsSubclass without the elementTagsByType.has(type) test
NeedsSubclassOnlyForFoundation(type, tagsByType) == type = FoundationElement

\* `elementTagsByType.has(type) || type === FoundationElement`
NeedsSubclass(type, tagsByType) ==
    MapHas(tagsByType, type) \/ type = FoundationElement

\* `type = class extends type {}`: a class of a new identity; serial is the
\* number of classes synthesized before it, plus one
SynthesizeSubclass(type, serial) == [base |-> type.base, id |-> serial]

\* the type the registration is filed under (lines 279-281)
FiledType(type, tagsByType, serial) ==
    IF NeedsSubclass(type, tagsByType)
    THEN SynthesizeSubclass(type, serial) ELSE type

\* tryDefineElement without `elementTypesByTag.set(elementName, type)`
FileTypeByTagNowhere(typesByTag, elementName, type) == typesByTag

\* `elementTypesByTag.set(elementName, type)`
FileTypeByTag(typesByTag, elementName, type) ==
    MapSet(typesByTag, elementName, type)

\* FileTagByType without the `if (baseClass)` statement
FileTagByTypeOnly(tagsByType, elementName, type, baseClass) ==
    MapSet(tagsByType, type, elementName)

\* FileTagByType with the two writes as alternatives: a baseClass is filed
\* instead of the type
FileTagByTypeOrBase(tagsByType, elementName, type, baseClass) ==
    IF baseClass # Undefined
    THEN MapSet(tagsByType, baseClass, elementName)
    ELSE MapSet(tagsByType, type, elementName)

\* `elementTagsByType.set(type, elementName)` and, with a baseClass,
\* `elementTagsByType.set(baseClass, elementName)`
FileTagByType(tagsByType, elementName, type, baseClass) ==
    LET filed == MapSet(tagsByType, type, elementName)
    IN  IF baseClass # Undefined
        THEN MapSet(filed, baseClass, elementName) ELSE filed

\* new ElementDefinitionEntry(container, name, type, shadowRootMode,
\* callback, willDefine); definition starts null (the Undefined-typed
\* record).  call is the serial, within the register call, of the
\* tryDefineElement call that made the entry.
NullDefinition == [name |-> "", type |-> Undefined]
ElementDefinitionEntry(container, name, type, shadowRootMode, callback, willDefine, call) ==
    [container |-> container, name |-> name, type |-> type,
     shadowRootMode |-> shadowRootMode, callback |-> callback,
     willDefine |-> willDefine, definition |-> NullDefinition, call |-> call]

\* PushEntry as unshift: the entry goes to the front
PushEntryFront(entries, entry) == <<entry>> \o entries

\* `elementDefinitionEntries.push(entry)`
PushEntry(entries, entry) == Append(entries, entry)

\* entry.callback(entry): a "defineElement" callback calls
\* entry.defineElement(...), which sets entry.definition to a
\* FASTElementDefinition of entry.type named entry.name
RunCallback(entry) ==
    IF entry.callback = "defineElement"
    THEN [entry EXCEPT !.definition = [name |-> entry.name, type |-> entry.type]]
    ELSE entry

\* ShouldDefine without the willDefine test
\* the test of the for-of loop without `entry.definition !== null`
ShouldDefineWhenWilling(entry) == entry.willDefine

ShouldDefineWhenFilled(entry) == entry.definition # NullDefinition

\* `entry.willDefine && entry.definition !== null`
ShouldDefine(entry) == entry.willDefine /\ entry.definition # NullDefinition

\* EntryAt iterating from the last entry to the first
EntryAtFromLast(entries, k) == entries[Len(entries) + 1 - k]

\* `for (const entry of elementDefinitionEntries)`: the entry of the k-th
\* iteration
EntryAt(entries, k) == entries[k]

(* ------------------------------- DOM ----------------------------------- *)

\* A document: z is a child of y, y a child of x; u is unrelated to them.
Nodes == {"x", "y", "z", "u"}
NoNode == "null"
ParentOf(node) ==
    CASE node = "z" -> "y"
      [] node = "y" -> "x"
      [] OTHER -> NoNode

\* node and its ancestors, nearest first
RECURSIVE AncestorsOrSelf(_)
AncestorsOrSelf(node) ==
    IF node = NoNode THEN <<>> ELSE <<node>> \o AncestorsOrSelf(ParentOf(node))

\* the container that is not scoped to a node (DI.getOrCreateDOMContainer())
RootContainer == "root"

(* ------------------------------ state ---------------------------------- *)

VARIABLES
    elementTypesByTag,      \* Map<string, Constructable>
    elementTagsByType,      \* Map<Constructable, string>
    classesSynthesized,     \* classes made by `class extends type {}` so far
    rootDesignSystem,       \* 0 (null) or a design system
    designSystems,          \* the DefaultDesignSystem instances, by identity
    nodeDesignSystem,       \* node.$$designSystem$$ (0: not set)
    domContainers,          \* the containers that exist
    containerRegistrations, \* container -> what it resolves designSystemKey to
    located,                \* the last locator or setter call and what it
                            \* returned
    locatorCalls,           \* locator calls made
    inRegister,             \* a register() call is executing
    thisSystem,             \* its `this`
    context,                \* its closure: container, disambiguate, ...
    registrations,          \* its ...registrations: opaque values, by position
    invoked,                \* the tryDefineElement calls of this register
                            \* call, in order: the registration calling,
                            \* the parameters and how the call ended
    elementDefinitionEntries,
    cursor,                 \* position of the for-of loop over the entries
    events,                 \* callbacks and define() calls of this register call
    platformDefined,        \* every definition.define() so far, in order
    tokenRoots,             \* every DesignToken.registerRoot(root) so far
    filedAsBase,            \* classes filed by elementTagsByType.set(baseClass, ..)
    returnedFor,            \* node -> what getOrCreate(node) last returned
    registerCalls,          \* register() calls made
    tryDefineCalls          \* tryDefineElement calls the registrations passed
                            \* to register() so far make

registries ==
    <<elementTypesByTag, elementTagsByType, classesSynthesized, filedAsBase>>
locator ==
    <<rootDesignSystem, nodeDesignSystem, domContainers,
      containerRegistrations, located, locatorCalls, returnedFor>>
pass ==
    <<inRegister, thisSystem, context, registrations, invoked,
      elementDefinitionEntries, cursor, events>>
counters == <<registerCalls, tryDefineCalls>>
vars ==
    <<registries, locator, pass, designSystems, platformDefined, tokenRoots,
      counters>>

\* new DefaultDesignSystem(owner, container): the field initializers
DefaultDesignSystem(owner, container) ==
    [owner |-> owner, container |-> container,
     designTokensInitialized |-> FALSE, designTokenRoot |-> "undefined",
     prefix |-> "fast", shadowRootMode |-> "undefined",
     disambiguate |-> DefaultDisambiguate]

NoContext ==
    [elementPrefix |-> "", container |-> "", disambiguate |-> "",
     shadowRootMode |-> ""]

\* the module after its top-level statements ran
InitModule ==
    /\ elementTypesByTag = EmptyMap
    /\ elementTagsByType = EmptyMap
    /\ classesSynthesized = 0
    /\ rootDesignSystem = 0
    /\ designSystems = <<>>
    /\ nodeDesignSystem = [n \in Nodes |-> 0]
    /\ domContainers = {}
    /\ containerRegistrations = [c \in Nodes \cup {RootContainer} |-> 0]
    /\ located = [op |-> "none", node |-> NoNode, result |-> 0]
    /\ locatorCalls = 0
    /\ inRegister = FALSE
    /\ thisSystem = 0
    /\ context = NoContext
    /\ registrations = <<>>
    /\ invoked = <<>>
    /\ elementDefinitionEntries = <<>>
    /\ cursor = 0
    /\ events = <<>>
    /\ platformDefined = <<>>
    /\ tokenRoots = <<>>
    /\ filedAsBase = {}
    /\ returnedFor = [n \in Nodes \cup {NoNode} |-> 0]
    /\ registerCalls = 0
    /\ tryDefineCalls = 0

(* ------------------------- the DI container ---------------------------- *)

\* DI.findResponsibleContainer(element): the container of the nearest node,
\* from the element up, that has one; the root container when none has
FindResponsibleContainer(element, containers) ==
    LET HasContainer(n) == n \in containers
        found == SelectSeq(AncestorsOrSelf(element), HasContainer)
    IN  IF found = <<>> THEN RootContainer ELSE Head(found)

\* the containers container.get(key) asks, nearest first: the container, the
\* containers of its owner's ancestors, the root container
ResolutionChain(container, containers) ==
    LET HasContainer(n) == n \in containers \/ n = container
    IN  IF container = RootContainer THEN <<RootContainer>>
        ELSE SelectSeq(AncestorsOrSelf(container), HasContainer)
                \o <<RootContainer>>

\* container.has(designSystemKey, false): registered on the container itself
ContainerHas(container, registered) == registered[container] # 0

\* what container.get(designSystemKey) finds registered: the registration of
\* the nearest container of the chain that has one; 0 when none has, and
\* the key's own cachedCallback decides
ContainerGet(container, containers, registered) ==
    LET IsRegistered(c) == registered[c] # 0
        found == SelectSeq(ResolutionChain(container, containers), IsRegistered)
    IN  IF found = <<>> THEN 0 ELSE registered[Head(found)]

(* ---------------------------- DesignSystem ----------------------------- *)

\* DesignSystem.tagFor(type): elementTagsByType.get(type)
TagFor(type) == TagGet(elementTagsByType, type)

\* The callback of designSystemKey: make the root design system when there
\* is none, give rootDesignSystem.  Gives the values after it ran.
DesignSystemKeyCallback ==
    IF rootDesignSystem = 0
    THEN [root |-> Len(designSystems) + 1,
          systems |-> Append(designSystems,
                             DefaultDesignSystem(NoNode, RootContainer))]
    ELSE [root |-> rootDesignSystem, systems |-> designSystems]

\* GetDesignSystem with a callback that is neither cached nor guarded by
\* `rootDesignSystem === null`: every resolution makes a design system
GetDesignSystemFresh(container, containers) ==
    LET system == Len(designSystems) + 1
    IN  [result |-> system, root |-> system,
         systems |-> Append(designSystems,
                            DefaultDesignSystem(NoNode, RootContainer)),
         registered |-> containerRegistrations]

\* container.get(designSystemKey) as a step: the registered design system,
\* or the callback's, which the root container then holds
GetDesignSystem(container, containers) ==
    LET found == ContainerGet(container, containers, containerRegistrations)
        made == DesignSystemKeyCallback
    IN  IF found # 0
        THEN [result |-> found, root |-> rootDesignSystem,
              systems |-> designSystems,
              registered |-> containerRegistrations]
        ELSE [result |-> made.root, root |-> made.root,
              systems |-> made.systems,
              registered |-> [containerRegistrations EXCEPT
                                 ![RootContainer] = made.root]]

\* the constructor of DefaultDesignSystem: `owner.$$designSystem$$ = this`
AttachToOwner(owned, owner, system) == [owned EXCEPT ![owner] = system]

\* getOrCreate without its container.register(...) statement
RegisterInstanceNowhere(registered, container, system) == registered

\* `container.register(Registration.instance(designSystemKey, system))`
RegisterInstance(registered, container, system) ==
    [registered EXCEPT ![container] = system]

\* DesignSystem.responsibleFor(element)
ResponsibleFor(element) ==
    /\ ~inRegister
    /\ locatorCalls < MaxLocatorCalls
    /\ locatorCalls' = locatorCalls + 1
    /\ LET owned == nodeDesignSystem[element]
           container == FindResponsibleContainer(element, domContainers)
           got == GetDesignSystem(container, domContainers \cup {container})
       IN  IF owned # 0
           THEN /\ located' = [op |-> "responsibleFor", node |-> element,
                               result |-> owned]
                /\ UNCHANGED <<rootDesignSystem, designSystems, domContainers,
                               containerRegistrations>>
           ELSE /\ located' = [op |-> "responsibleFor", node |-> element,
                               result |-> got.result]
                /\ rootDesignSystem' = got.root
                /\ designSystems' = got.systems
                /\ containerRegistrations' = got.registered
                /\ domContainers' = domContainers \cup {container}
    /\ UNCHANGED <<registries, nodeDesignSystem, returnedFor, pass,
                   platformDefined, tokenRoots, counters>>

\* DesignSystem.getOrCreate(): no node
GetOrCreateRoot ==
    /\ ~inRegister
    /\ locatorCalls < MaxLocatorCalls
    /\ locatorCalls' = locatorCalls + 1
    /\ LET got == GetDesignSystem(RootContainer, domContainers \cup {RootContainer})
       IN  IF rootDesignSystem = 0
           THEN /\ rootDesignSystem' = got.result
                /\ designSystems' = got.systems
                /\ containerRegistrations' = got.registered
                /\ domContainers' = domContainers \cup {RootContainer}
                /\ located' = [op |-> "getOrCreate", node |-> NoNode,
                               result |-> got.result]
           ELSE /\ located' = [op |-> "getOrCreate", node |-> NoNode,
                               result |-> rootDesignSystem]
                /\ UNCHANGED <<rootDesignSystem, designSystems, domContainers,
                               containerRegistrations>>
    /\ returnedFor' = [returnedFor EXCEPT ![NoNode] = located'.result]
    /\ UNCHANGED <<registries, nodeDesignSystem, pass, platformDefined,
                   tokenRoots, counters>>

\* DesignSystem.getOrCreate(node)
GetOrCreate(node) ==
    /\ ~inRegister
    /\ locatorCalls < MaxLocatorCalls
    /\ locatorCalls' = locatorCalls + 1
    /\ LET owned == nodeDesignSystem[node]
           containers == domContainers \cup {node}
           got == GetDesignSystem(node, containers)
           system == Len(designSystems) + 1
       IN  IF owned # 0
           THEN /\ located' = [op |-> "getOrCreate", node |-> node,
                               result |-> owned]
                /\ UNCHANGED <<rootDesignSystem, designSystems, domContainers,
                               containerRegistrations, nodeDesignSystem>>
           ELSE IF ContainerHas(node, containerRegistrations)
           THEN /\ located' = [op |-> "getOrCreate", node |-> node,
                               result |-> got.result]
                /\ domContainers' = containers
                /\ rootDesignSystem' = got.root
                /\ designSystems' = got.systems
                /\ containerRegistrations' = got.registered
                /\ UNCHANGED nodeDesignSystem
           ELSE /\ designSystems' =
                      Append(designSystems, DefaultDesignSystem(node, node))
                /\ nodeDesignSystem' =
                      AttachToOwner(nodeDesignSystem, node, system)
                /\ containerRegistrations' =
                      RegisterInstance(containerRegistrations, node, system)
                /\ domContainers' = containers
                /\ located' = [op |-> "getOrCreate", node |-> node,
                               result |-> system]
                /\ UNCHANGED rootDesignSystem
    /\ returnedFor' = [returnedFor EXCEPT ![node] = located'.result]
    /\ UNCHANGED <<registries, pass, platformDefined, tokenRoots,
                   counters>>

(* ------------------------- DefaultDesignSystem ------------------------- *)

\* withElementDisambiguation(callback)
WithElementDisambiguation(system, callback) ==
    /\ ~inRegister
    /\ designSystems[system].disambiguate # callback
    /\ designSystems' =
          [designSystems EXCEPT ![system].disambiguate = callback]
    /\ UNCHANGED <<registries, locator, pass, platformDefined, tokenRoots,
                   counters>>

\* register without the designTokensInitialized flag
RegistersTokenRootUnlessNull(system) ==
    designSystems[system].designTokenRoot # "null"

\* `if (!this.designTokensInitialized) { ... if (this.designTokenRoot !==
\* null)`: this register call registers the design token root
RegistersTokenRoot(system) ==
    /\ ~designSystems[system].designTokensInitialized
    /\ designSystems[system].designTokenRoot # "null"

\* register(...registrations), up to the call of
\* container.registerWithContext: the closure is built from the fields as
\* they are now, and the first call of an instance registers the design
\* token root unless it is null.  The registrations are opaque to the
\* design system (any[]): count of them are passed.
Register(system, count) ==
    /\ ~inRegister
    /\ registerCalls < MaxRegisterCalls
    /\ tryDefineCalls + count <= MaxTryDefineCalls
    /\ registerCalls' = registerCalls + 1
    /\ tryDefineCalls' = tryDefineCalls + count
    /\ inRegister' = TRUE
    /\ thisSystem' = system
    /\ context' = [elementPrefix |-> designSystems[system].prefix,
                   container |-> designSystems[system].container,
                   disambiguate |-> designSystems[system].disambiguate,
                   shadowRootMode |-> designSystems[system].shadowRootMode]
    /\ registrations' = [i \in 1..count |-> i]
    /\ invoked' = <<>>
    /\ elementDefinitionEntries' = <<>>
    /\ cursor' = 1
    /\ events' = <<>>
    /\ designSystems' =
          [designSystems EXCEPT ![system].designTokensInitialized = TRUE]
    /\ tokenRoots' =
          IF RegistersTokenRoot(system)
          THEN Append(tokenRoots, designSystems[system].designTokenRoot)
          ELSE tokenRoots
    /\ UNCHANGED <<registries, locator, platformDefined>>

\* tryDefineElement reading `this.disambiguate` at each call
LiveDisambiguate == designSystems[thisSystem].disambiguate

\* `const disambiguate = this.disambiguate`: the callback tryDefineElement
\* calls is the one register() read when it started
CapturedDisambiguate == context.disambiguate

\* the loop was left by an exception of the disambiguation callback
LoopThrew(loop) ==
    loop.calls # <<>> /\ loop.calls[Len(loop.calls)].result = Throw

\* context.tryDefineElement(params), called by registration number reg
TryDefineElement(params, reg) ==
    LET loop == DisambiguationLoop(CapturedDisambiguate, params.name, params.type, elementTypesByTag, <<>>)
        serial == classesSynthesized + 1
        \* lines 279-281 are reached only past the loop, with needsDefine
        type == IF ~loop.returned /\ loop.needsDefine
                THEN FiledType(params.type, elementTagsByType, serial)
                ELSE params.type
        call == Len(invoked) + 1
        entry == ElementDefinitionEntry(context.container, loop.elementName, type, context.shadowRootMode, params.callback, loop.needsDefine, call)
    IN  /\ IF loop.returned
           THEN UNCHANGED <<registries, elementDefinitionEntries>>
           ELSE /\ IF loop.needsDefine
                   THEN /\ elementTypesByTag' =
                              FileTypeByTag(elementTypesByTag, loop.elementName, type)
                        /\ elementTagsByType' =
                              FileTagByType(elementTagsByType, loop.elementName, type, params.baseClass)
                        /\ classesSynthesized' =
                              IF type # params.type THEN serial
                              ELSE classesSynthesized
                        /\ filedAsBase' =
                              IF params.baseClass # Undefined
                              THEN filedAsBase \cup {params.baseClass}
                              ELSE filedAsBase
                   ELSE UNCHANGED registries
                /\ elementDefinitionEntries' =
                      PushEntry(elementDefinitionEntries, entry)
        /\ invoked' =
              Append(invoked,
                     [registration |-> reg, params |-> params,
                      outcome |-> IF LoopThrew(loop) THEN "throw"
                                  ELSE IF loop.returned THEN "return"
                                  ELSE IF loop.needsDefine THEN "define"
                                  ELSE "callbackOnly",
                      elementName |-> loop.elementName, type |-> type,
                      calls |-> loop.calls])

\* a tryDefineElement call of the register call threw
PolicyThrew(made) == \E k \in 1..Len(made) : made[k].outcome = "throw"

\* the registrations the container has not invoked yet; an exception ends
\* registerWithContext, so none is once a call threw
Pending ==
    IF PolicyThrew(invoked) THEN {}
    ELSE {i \in 1..Len(registrations) :
             \A k \in 1..Len(invoked) : invoked[k].registration # i}

\* register with `try { container.registerWithContext(...) } catch {}`
ThrowLeavesRegisterCaught == FALSE

\* register() has no try/catch around container.registerWithContext: an
\* exception thrown under it leaves register()
ThrowLeavesRegister == TRUE

\* where register() is after a registration was invoked: still in
\* registerWithContext, or left by the exception (its entries, never
\* visited by the for-of loop, are kept here as they were left)
AfterInvocation ==
    IF PolicyThrew(invoked') /\ ThrowLeavesRegister
    THEN /\ inRegister' = FALSE
         /\ thisSystem' = 0
         /\ context' = NoContext
         /\ cursor' = 0
    ELSE UNCHANGED <<inRegister, thisSystem, context, cursor>>

\* container.registerWithContext(context, ...registrations) invokes one more
\* registration, which calls context.tryDefineElement with its parameters
InvokeRegistration ==
    /\ inRegister
    /\ \E reg \in Pending, params \in ElementDefinitionParams :
          TryDefineElement(params, registrations[reg])
    /\ AfterInvocation
    /\ UNCHANGED <<locator, designSystems, platformDefined, tokenRoots,
                   counters, registrations, events>>

\* one iteration of `for (const entry of elementDefinitionEntries)`
DefineEntry ==
    /\ inRegister
    /\ Pending = {}
    /\ cursor <= Len(elementDefinitionEntries)
    /\ LET entry == RunCallback(EntryAt(elementDefinitionEntries, cursor))
           ran == Append(events, [kind |-> "callback", call |-> entry.call])
       IN  /\ elementDefinitionEntries' =
                 [elementDefinitionEntries EXCEPT ![cursor] = entry]
           /\ IF ShouldDefine(entry)
              THEN /\ platformDefined' = Append(platformDefined, entry.definition)
                   /\ events' = Append(ran, [kind |-> "define", call |-> entry.call])
              ELSE /\ UNCHANGED platformDefined
                   /\ events' = ran
    /\ cursor' = cursor + 1
    /\ UNCHANGED <<registries, locator, designSystems, tokenRoots,
                   counters, inRegister, thisSystem, context,
                   registrations, invoked>>

\* `return this`: the call's locals are gone
RegisterReturn ==
    /\ inRegister
    /\ Pending = {}
    /\ cursor > Len(elementDefinitionEntries)
    /\ inRegister' = FALSE
    /\ thisSystem' = 0
    /\ context' = NoContext
    /\ registrations' = <<>>
    /\ invoked' = <<>>
    /\ elementDefinitionEntries' = <<>>
    /\ cursor' = 0
    /\ events' = <<>>
    /\ UNCHANGED <<registries, locator, designSystems, platformDefined,
                   tokenRoots, counters>>

(* --------------------------- specifications ---------------------------- *)

\* The registration pipeline, from a page where DesignSystem.getOrCreate()
\* and DesignSystem.getOrCreate(x) have been called.
Init ==
    /\ elementTypesByTag = EmptyMap
    /\ elementTagsByType = EmptyMap
    /\ classesSynthesized = 0
    /\ rootDesignSystem = 1
    /\ designSystems = <<DefaultDesignSystem(NoNode, RootContainer),
                         DefaultDesignSystem("x", "x")>>
    /\ nodeDesignSystem = [n \in Nodes |-> IF n = "x" THEN 2 ELSE 0]
    /\ domContainers = {RootContainer, "x"}
    /\ containerRegistrations =
          [c \in Nodes \cup {RootContainer} |->
              IF c = RootContainer THEN 1 ELSE IF c = "x" THEN 2 ELSE 0]
    /\ located = [op |-> "getOrCreate", node |-> "x", result |-> 2]
    /\ locatorCalls = 2
    /\ inRegister = FALSE
    /\ thisSystem = 0
    /\ context = NoContext
    /\ registrations = <<>>
    /\ invoked = <<>>
    /\ elementDefinitionEntries = <<>>
    /\ cursor = 0
    /\ events = <<>>
    /\ platformDefined = <<>>
    /\ tokenRoots = <<>>
    /\ filedAsBase = {}
    /\ returnedFor =
          [n \in Nodes \cup {NoNode} |->
              IF n = NoNode THEN 1 ELSE IF n = "x" THEN 2 ELSE 0]
    /\ registerCalls = 0
    /\ tryDefineCalls = 0

\* the design systems the page configures; the root one keeps its defaults
ConfiguredSystems == {2}

Next ==
    \/ \E system \in ConfiguredSystems, callback \in Disambiguators :
          WithElementDisambiguation(system, callback)
    \/ \E system \in 1..Len(designSystems), count \in 0..MaxRegistrations :
          Register(system, count)
    \/ InvokeRegistration
    \/ DefineEntry
    \/ RegisterReturn

Spec == Init /\ [][Next]_vars

\* The locator, from module load.
NextLocator ==
    \/ GetOrCreateRoot
    \/ \E node \in Nodes : GetOrCreate(node)
    \/ \E element \in Nodes : ResponsibleFor(element)

SpecLocator == InitModule /\ [][NextLocator]_vars

\* One register call whose registrations each define an element of their
\* own: registration k defines OrderedName(k).
OrderedName(k) == "ordered-" \o ToString(k)
OrderedParams(k) ==
    [name : {OrderedName(k)}, type : ElementTypes, baseClass : {Undefined},
     callback : Callbacks]

RegisterOrdered ==
    \E system \in 1..Len(designSystems) : Register(system, MaxTryDefineCalls)

InvokeOrdered ==
    /\ inRegister
    /\ \E reg \in Pending :
          \E params \in OrderedParams(reg) :
             TryDefineElement(params, registrations[reg])
    /\ AfterInvocation
    /\ UNCHANGED <<locator, designSystems, platformDefined, tokenRoots,
                   counters, registrations, events>>

NextOrder ==
    \/ RegisterOrdered
    \/ InvokeOrdered
    \/ DefineEntry
    \/ RegisterReturn

SpecOrder == Init /\ [][NextOrder]_vars

\* The pipeline with disambiguation callbacks that break their contract:
\* one that returns undefined, one that throws.
FaultyDisambiguators == {"invalidThenIgnore", "throws"}

NextFaulty ==
    \/ \E system \in ConfiguredSystems, callback \in FaultyDisambiguators :
          WithElementDisambiguation(system, callback)
    \/ \E system \in 1..Len(designSystems), count \in 0..MaxRegistrations :
          Register(system, count)
    \/ InvokeRegistration
    \/ DefineEntry
    \/ RegisterReturn

SpecFaulty == Init /\ [][NextFaulty]_vars

\* The configuration setters, called at any moment, a register call
\* executing or not; each returns `this`.
Prefixes == {"fast", "foo"}
ShadowRootModes == {"undefined", "closed"}
DesignTokenRoots == {"null", "x"}
ConfigDisambiguators == {DefaultDisambiguate, "rename"}

\* `return this` of a setter
SetterReturns(op, system) == [op |-> op, node |-> NoNode, result |-> system]

CallWithPrefix(system, prefix) ==
    /\ designSystems' = [designSystems EXCEPT ![system].prefix = prefix]
    /\ located' = SetterReturns("withPrefix", system)
    /\ UNCHANGED <<registries, rootDesignSystem, nodeDesignSystem,
                   domContainers, containerRegistrations, locatorCalls,
                   returnedFor, pass, platformDefined, tokenRoots, counters>>

CallWithShadowRootMode(system, mode) ==
    /\ designSystems' =
          [designSystems EXCEPT ![system].shadowRootMode = mode]
    /\ located' = SetterReturns("withShadowRootMode", system)
    /\ UNCHANGED <<registries, rootDesignSystem, nodeDesignSystem,
                   domContainers, containerRegistrations, locatorCalls,
                   returnedFor, pass, platformDefined, tokenRoots, counters>>

CallWithElementDisambiguation(system, callback) ==
    /\ designSystems' =
          [designSystems EXCEPT ![system].disambiguate = callback]
    /\ located' = SetterReturns("withElementDisambiguation", system)
    /\ UNCHANGED <<registries, rootDesignSystem, nodeDesignSystem,
                   domContainers, containerRegistrations, locatorCalls,
                   returnedFor, pass, platformDefined, tokenRoots, counters>>

CallWithDesignTokenRoot(system, root) ==
    /\ designSystems' =
          [designSystems EXCEPT ![system].designTokenRoot = root]
    /\ located' = SetterReturns("withDesignTokenRoot", system)
    /\ UNCHANGED <<registries, rootDesignSystem, nodeDesignSystem,
                   domContainers, containerRegistrations, locatorCalls,
                   returnedFor, pass, platformDefined, tokenRoots, counters>>

\* the registrations of the configured page: each defines foo-button
ConfiguredParams ==
    [name : {"foo-button"}, type : {TypeA, TypeB}, baseClass : {Undefined},
     callback : {"defineElement"}]

InvokeConfigured ==
    /\ inRegister
    /\ \E reg \in Pending :
          \E params \in ConfiguredParams :
             TryDefineElement(params, registrations[reg])
    /\ AfterInvocation
    /\ UNCHANGED <<locator, designSystems, platformDefined, tokenRoots,
                   counters, registrations, events>>

NextConfig ==
    \/ \E system \in ConfiguredSystems, prefix \in Prefixes :
          CallWithPrefix(system, prefix)
    \/ \E system \in ConfiguredSystems, mode \in ShadowRootModes :
          CallWithShadowRootMode(system, mode)
    \/ \E system \in ConfiguredSystems, callback \in ConfigDisambiguators :
          CallWithElementDisambiguation(system, callback)
    \/ \E system \in ConfiguredSystems, root \in DesignTokenRoots :
          CallWithDesignTokenRoot(system, root)
    \/ \E system \in ConfiguredSystems, count \in 0..MaxRegistrations :
          Register(system, count)
    \/ InvokeConfigured
    \/ DefineEntry
    \/ RegisterReturn

SpecConfig == Init /\ [][NextConfig]_vars

\* The pipeline with registrations that give a baseClass with any type,
\* the type itself included.
BaseClassParams ==
    [name : ElementNames, type : ElementTypes, baseClass : BaseClasses,
     callback : {"defineElement"}]

InvokeWithBaseClass ==
    /\ inRegister
    /\ \E reg \in Pending :
          \E params \in BaseClassParams :
             TryDefineElement(params, registrations[reg])
    /\ AfterInvocation
    /\ UNCHANGED <<locator, designSystems, platformDefined, tokenRoots,
                   counters, registrations, events>>

NextBase ==
    \/ \E system \in ConfiguredSystems, callback \in Disambiguators :
          WithElementDisambiguation(system, callback)
    \/ \E system \in ConfiguredSystems, count \in 0..MaxRegistrations :
          Register(system, count)
    \/ InvokeWithBaseClass
    \/ DefineEntry
    \/ RegisterReturn

SpecBase == Init /\ [][NextBase]_vars

(* ------------------------------ claims --------------------------------- *)

\* the entries the for-of loop of register() has been through
Processed == {k \in 1..Len(elementDefinitionEntries) : k < cursor}

\* C1: over any sequence of register calls, on any design system and with
\* any disambiguation callback, definition.define() is called at most once
\* for a tag name and at most once for an element type.
C1_DefinedAtMostOnce ==
    \A i, j \in 1..Len(platformDefined) :
        i < j => /\ platformDefined[i].name # platformDefined[j].name
                 /\ platformDefined[i].type # platformDefined[j].type

\* C1 witness: two elements are defined, and a later registration under a
\* defined name had its callback fill the definition and was not defined.
C1_Witness ==
    /\ Len(platformDefined) >= 2
    /\ \E k \in Processed :
          LET entry == elementDefinitionEntries[k]
          IN  /\ ~entry.willDefine
              /\ entry.definition # NullDefinition
              /\ \E i \in 1..Len(platformDefined) :
                    platformDefined[i].name = entry.name

\* C2 as claimed: after every completed register call no two distinct
\* element types are filed under the same tag name, in either registry, a
\* baseClass included.
C2_Injective ==
    ~inRegister =>
        /\ \A n1, n2 \in DOMAIN elementTypesByTag :
              n1 # n2 => elementTypesByTag[n1] # elementTypesByTag[n2]
        /\ \A t1, t2 \in DOMAIN elementTagsByType :
              t1 # t2 => elementTagsByType[t1] # elementTagsByType[t2]

\* C2 amended: after every completed register call no two tag names map to
\* the same element type, and two distinct element types are filed under
\* the same tag name only when one of them was filed as a baseClass.
C2_InjectiveButBaseClass ==
    ~inRegister =>
        /\ \A n1, n2 \in DOMAIN elementTypesByTag :
              n1 # n2 => elementTypesByTag[n1] # elementTypesByTag[n2]
        /\ \A t1, t2 \in DOMAIN elementTagsByType :
              (t1 # t2 /\ elementTagsByType[t1] = elementTagsByType[t2])
                 => (t1 \in filedAsBase \/ t2 \in filedAsBase)

\* C2 witness: register calls have completed that filed a synthesized
\* subclass, and a baseClass under the tag name of another type.
C2_Witness ==
    /\ ~inRegister
    /\ \E t \in DOMAIN elementTagsByType : t.id > 0
    /\ \E t1 \in DOMAIN elementTagsByType, t2 \in filedAsBase :
          t1 # t2 /\ elementTagsByType[t1] = elementTagsByType[t2]

\* C3 as claimed: in every state each entry of one registry has its reverse
\* entry in the other.
C3_Bidirectional ==
    /\ \A t \in DOMAIN elementTagsByType :
          MapGet(elementTypesByTag, elementTagsByType[t]) = t
    /\ \A n \in DOMAIN elementTypesByTag :
          TagGet(elementTagsByType, elementTypesByTag[n]) = n

\* C3 amended: in every state each tag name a type is filed under is on file
\* in the tag-to-type registry, with that type unless the type was filed as
\* a baseClass; each type a tag name is filed with is on file in the
\* type-to-tag registry, with that tag name unless the type was filed as a
\* baseClass.
C3_BidirectionalButBaseClass ==
    /\ \A t \in DOMAIN elementTagsByType :
          /\ MapHas(elementTypesByTag, elementTagsByType[t])
          /\ t \notin filedAsBase
                => elementTypesByTag[elementTagsByType[t]] = t
    /\ \A n \in DOMAIN elementTypesByTag :
          /\ MapHas(elementTagsByType, elementTypesByTag[n])
          /\ elementTypesByTag[n] \notin filedAsBase
                => elementTagsByType[elementTypesByTag[n]] = n

\* C3 witness: a baseClass is filed under the tag name of another type,
\* a type that was first filed under its own tag name is now filed under
\* another, and a type that is no baseClass is filed both ways.
C3_Witness ==
    /\ \E t \in filedAsBase :
          elementTypesByTag[elementTagsByType[t]] # t
    /\ \E n \in DOMAIN elementTypesByTag :
          /\ elementTypesByTag[n] \in filedAsBase
          /\ elementTagsByType[elementTypesByTag[n]] # n
    /\ \E t \in DOMAIN elementTagsByType :
          t \notin filedAsBase /\ elementTypesByTag[elementTagsByType[t]] = t

\* C4 as claimed: once tagFor(T) is a tag name it stays that tag name,
\* whatever is registered later.
C4_TagForNeverChanges ==
    [][\A t \in DOMAIN elementTagsByType :
          TagGet(elementTagsByType', t) = elementTagsByType[t]]_vars

\* a step that is one tryDefineElement call
IsTryDefine == inRegister /\ Len(invoked') = Len(invoked) + 1
\* the call made by such a step
TryDefined == invoked'[Len(invoked')]
\* a step that is one iteration of the for-of loop of register()
IsDefineEntry == inRegister /\ inRegister' /\ cursor' = cursor + 1
\* the for-of loop of register() is over
PassOver ==
    inRegister /\ Pending = {} /\ cursor > Len(elementDefinitionEntries)
\* the definition.define() calls made for a tag name
TimesDefinedIn(defined, name) ==
    Cardinality({i \in 1..Len(defined) : defined[i].name = name})
TimesDefined(name) == TimesDefinedIn(platformDefined, name)
\* the disambiguation callback's last result in a tryDefineElement call
LastResult(call) == call.calls[Len(call.calls)].result

\* a register call made the same (name, type) registration twice, the first
\* one filed and its callback defining the element
RegisteredTwiceIn(made, c1, c2) ==
    /\ c1 < c2
    /\ made[c1].params.name = made[c2].params.name
    /\ made[c1].params.type = made[c2].params.type
    /\ made[c1].calls = <<>>
    /\ made[c1].params.callback = "defineElement"
RegisteredTwice(c1, c2) == RegisteredTwiceIn(invoked, c1, c2)

\* C5: with the default disambiguation, registering a (name, type) pair
\* whose name is on file (as it is after the pair's first registration)
\* leaves both registries, and so tagFor, as they are and adds an entry that
\* is not to be defined; an entry not to be defined is never defined and one
\* to be defined whose callback fills the definition is defined once; so the
\* pair registered twice in one register call is defined exactly once.
C5_Idempotent ==
    [][/\ (/\ IsTryDefine
           /\ context.disambiguate = DefaultDisambiguate
           /\ MapHas(elementTypesByTag, TryDefined.params.name))
          => /\ elementTypesByTag' = elementTypesByTag
             /\ elementTagsByType' = elementTagsByType
             /\ TagGet(elementTagsByType', TryDefined.params.type)
                   = TagFor(TryDefined.params.type)
             /\ Len(elementDefinitionEntries')
                   = Len(elementDefinitionEntries) + 1
             /\ ~elementDefinitionEntries'[Len(elementDefinitionEntries')].willDefine
       /\ IsDefineEntry
          => LET entry == elementDefinitionEntries[cursor]
             IN  platformDefined' =
                    IF entry.willDefine /\ entry.callback = "defineElement"
                    THEN Append(platformDefined,
                                [name |-> entry.name, type |-> entry.type])
                    ELSE platformDefined
       /\ (PassOver' /\ context'.disambiguate = DefaultDisambiguate)
          => \A c1, c2 \in 1..Len(invoked') :
                RegisteredTwiceIn(invoked', c1, c2)
                   => TimesDefinedIn(platformDefined',
                                     invoked'[c1].params.name) = 1
      ]_vars

\* C5 witness: under the default disambiguation a register call registered
\* TypeA as foo-button twice; the loop over the entries is over, foo-button
\* is defined once and tagFor(TypeA) is foo-button.
C5_Witness ==
    /\ PassOver
    /\ context.disambiguate = DefaultDisambiguate
    /\ Len(invoked) = 2
    /\ RegisteredTwice(1, 2)
    /\ invoked[1].params.name = "foo-button"
    /\ invoked[1].params.type = TypeA
    /\ invoked[2].params.callback = "defineElement"
    /\ TimesDefined("foo-button") = 1
    /\ TagFor(TypeA) = "foo-button"

\* the first name of the chain name, name-2, name-2-2, ... not on file
RECURSIVE FirstFreeName(_, _)
FirstFreeName(name, typesByTag) ==
    IF MapHas(typesByTag, name)
    THEN FirstFreeName(name \o "-2", typesByTag) ELSE name

\* C6: with a callback that always renames to name + "-2", a registration
\* is filed under the first name of the chain name, name-2, name-2-2, ...
\* that is not on file (the requested name for the first type registered
\* under it); that tag name maps to the type filed and the type filed to
\* that tag name; a type not yet on file is filed as itself; and every
\* earlier entry of both registries stays, but that of the baseClass.
C6_RenameDeterminism ==
    [][(IsTryDefine /\ context.disambiguate = "rename")
          => LET free == FirstFreeName(TryDefined.params.name, elementTypesByTag)
                 type == TryDefined.params.type
                 filed == TryDefined.type
             IN  /\ TryDefined.elementName = free
                 /\ TryDefined.outcome = "define"
                 /\ MapGet(elementTypesByTag', free) = filed
                 /\ TagGet(elementTagsByType', filed) = free
                 /\ (~MapHas(elementTagsByType, type) /\ type # FoundationElement)
                       => filed = type
                 /\ \A n \in DOMAIN elementTypesByTag :
                       MapGet(elementTypesByTag', n) = elementTypesByTag[n]
                 /\ \A t \in DOMAIN elementTagsByType :
                       t # TryDefined.params.baseClass
                          => TagGet(elementTagsByType', t) = elementTagsByType[t]
      ]_vars

\* C6 witness: with the renaming callback TypeA, TypeB and a third type were
\* registered as foo-button: tagFor(TypeA) is foo-button, tagFor(TypeB) is
\* foo-button-2, the third is filed under foo-button-2-2 after two renames,
\* and each tag name maps back to its type.
C6_Witness ==
    /\ inRegister
    /\ context.disambiguate = "rename"
    /\ TagFor(TypeA) = "foo-button"
    /\ TagFor(TypeB) = "foo-button-2"
    /\ MapGet(elementTypesByTag, "foo-button") = TypeA
    /\ MapGet(elementTypesByTag, "foo-button-2") = TypeB
    /\ MapHas(elementTypesByTag, "foo-button-2-2")
    /\ TagFor(MapGet(elementTypesByTag, "foo-button-2-2")) = "foo-button-2-2"
    /\ Len(invoked) >= 1
    /\ Len(invoked[Len(invoked)].calls) = 2
    /\ invoked[Len(invoked)].elementName = "foo-button-2-2"

\* the tryDefineElement calls of this register call that the disambiguation
\* callback ended with ignoreDuplicate
IgnoredIn(made) ==
    {c \in 1..Len(made) :
        made[c].calls # <<>> /\ LastResult(made[c]) = IgnoreDuplicate}
Ignored == IgnoredIn(invoked)

\* C7: a tryDefineElement call whose disambiguation callback returns
\* ignoreDuplicate, at once or after renames, adds no entry, writes to
\* neither registry and synthesizes no class; no callback is run and no
\* definition is defined for it.
C7_IgnoreSemantics ==
    [][/\ (IsTryDefine /\ Len(invoked') \in IgnoredIn(invoked'))
          => /\ elementDefinitionEntries' = elementDefinitionEntries
             /\ elementTypesByTag' = elementTypesByTag
             /\ elementTagsByType' = elementTagsByType
             /\ classesSynthesized' = classesSynthesized
             /\ platformDefined' = platformDefined
             /\ events' = events
       /\ \A c \in IgnoredIn(invoked') :
             /\ \A k \in 1..Len(elementDefinitionEntries') :
                   elementDefinitionEntries'[k].call # c
             /\ \A e \in 1..Len(events') : events'[e].call # c
      ]_vars

\* C7 witness: the loop over the entries is over in a register call whose
\* first registration was defined and whose second was ignored after a
\* rename.
C7_Witness ==
    /\ PassOver
    /\ Len(invoked) = 2
    /\ 2 \in Ignored
    /\ Len(invoked[2].calls) = 2
    /\ Len(elementDefinitionEntries) = 1
    /\ Len(events) = 2
    /\ events[2].kind = "define"

\* C8: in one register call the callbacks run in the order of the
\* tryDefineElement calls that made their entries, and so are the
\* definitions defined; an entry is defined after its own callback ran and
\* before the next entry's callback.
C8_IssueOrder ==
    /\ \A i, j \in 1..Len(events) :
          (i < j /\ events[i].kind = events[j].kind)
             => events[i].call < events[j].call
    /\ \A j \in 1..Len(events) :
          events[j].kind = "define"
             => /\ j > 1
                /\ events[j - 1] = [kind |-> "callback", call |-> events[j].call]

\* C8 witness: the container invoked the second registration first; both
\* entries had their callback run and were defined.
C8_Witness ==
    /\ PassOver
    /\ Len(invoked) = 2
    /\ invoked[1].registration = 2
    /\ Len(events) = 4
    /\ events[2].kind = "define"
    /\ events[4].kind = "define"

\* every entry of the register call is to be defined and its callback fills
\* the definition
AllDefine ==
    /\ Len(elementDefinitionEntries) = Len(registrations)
    /\ \A k \in 1..Len(elementDefinitionEntries) :
          /\ elementDefinitionEntries[k].willDefine
          /\ elementDefinitionEntries[k].callback = "defineElement"

\* C9 as claimed: registrations A, B, C of one register call, without
\* collisions, are defined in the order A, B, C, whatever order the
\* container invokes them in.
C9_DefinedInPassedOrder ==
    (PassOver /\ AllDefine)
       => \A k \in 1..Len(registrations) :
             platformDefined[k].name = OrderedName(k)

\* C9 amended: they are defined in the order in which the container invoked
\* them, which is A, B, C when it invokes them in the order passed.
C9_DefinedInInvokedOrder ==
    (PassOver /\ AllDefine)
       => /\ Len(platformDefined) = Len(registrations)
          /\ \A k \in 1..Len(registrations) :
                platformDefined[k].name = OrderedName(invoked[k].registration)
          /\ (\A k \in 1..Len(invoked) : invoked[k].registration = k)
                => \A k \in 1..Len(registrations) :
                      platformDefined[k].name = OrderedName(k)

\* C9 witness: the container invoked C, A, B; all three are defined.
C9_Witness ==
    /\ PassOver
    /\ AllDefine
    /\ Len(invoked) >= 3
    /\ invoked[1].registration = 3
    /\ invoked[2].registration = 1
    /\ Len(platformDefined) >= 3

(* ------------------------------ scoping -------------------------------- *)

\* the ancestors of node, nearest first, node itself left out
ProperAncestors(node) == Tail(AncestorsOrSelf(node))

\* neither node is the other or an ancestor of the other
Unrelated(n, m) ==
    /\ n # m
    /\ \A k \in 1..Len(ProperAncestors(n)) : ProperAncestors(n)[k] # m
    /\ \A k \in 1..Len(ProperAncestors(m)) : ProperAncestors(m)[k] # n

\* a locator call was made by this step
LocatorStep == locatorCalls' = locatorCalls + 1

\* getOrCreate(node) called again gives what it gave before
SameNodeSameInstance ==
    \A n \in Nodes :
       (/\ located'.op = "getOrCreate"
        /\ located'.node = n
        /\ returnedFor[n] # 0) => located'.result = returnedFor[n]

\* getOrCreate on unrelated nodes gave distinct instances
UnrelatedNodesDistinctInstances(returned) ==
    \A n, m \in Nodes :
       (Unrelated(n, m) /\ returned[n] # 0 /\ returned[m] # 0)
          => returned[n] # returned[m]

\* C10 as claimed: getOrCreate(nodeX) again returns the identical instance,
\* getOrCreate on an unrelated node a distinct one, and responsibleFor on a
\* descendant of nodeX without a design system of its own returns nodeX's
\* instance, for every ancestor nodeX that getOrCreate gave an instance.
C10_Scoping ==
    [][LocatorStep =>
         /\ SameNodeSameInstance
         /\ UnrelatedNodesDistinctInstances(returnedFor')
         /\ (/\ located'.op = "responsibleFor"
              /\ nodeDesignSystem[located'.node] = 0)
               => \A k \in 1..Len(ProperAncestors(located'.node)) :
                     LET nodeX == ProperAncestors(located'.node)[k]
                     IN  returnedFor[nodeX] # 0
                            => located'.result = returnedFor[nodeX]]_vars

\* C10 amended: getOrCreate(nodeX) again returns the identical instance,
\* getOrCreate on an unrelated node a distinct one, and responsibleFor on a
\* descendant of nodeX without a design system of its own returns the
\* instance of its nearest ancestor that has one: nodeX's when no node
\* between the descendant and nodeX has a design system.
C10_ScopingToNearest ==
    [][LocatorStep =>
         /\ SameNodeSameInstance
         /\ UnrelatedNodesDistinctInstances(returnedFor')
         /\ (/\ located'.op = "responsibleFor"
              /\ nodeDesignSystem[located'.node] = 0)
               => \A k \in 1..Len(ProperAncestors(located'.node)) :
                     LET nodeX == ProperAncestors(located'.node)[k]
                     IN  (/\ returnedFor[nodeX] # 0
                          /\ \A j \in 1..(k - 1) :
                                returnedFor[ProperAncestors(located'.node)[j]]
                                   = 0)
                            => located'.result = returnedFor[nodeX]]_vars

\* C10 witness: getOrCreate gave x and the unrelated u their instances, one
\* of the four calls repeated an earlier getOrCreate, and responsibleFor(z),
\* z a descendant of x, gave the instance of x.
C10_Witness ==
    /\ located = [op |-> "responsibleFor", node |-> "z",
                  result |-> returnedFor["x"]]
    /\ returnedFor["x"] # 0
    /\ returnedFor["u"] # 0
    /\ returnedFor["x"] # returnedFor["u"]
    /\ returnedFor["y"] = 0
    /\ nodeDesignSystem["z"] = 0
    /\ nodeDesignSystem["x"] = returnedFor["x"]
    /\ locatorCalls = 4
    /\ Len(designSystems) = 2

(* ------------------------ the root design system ----------------------- *)

\* neither the element nor any of its ancestors has a design system
Unscoped(element) ==
    \A k \in 1..Len(AncestorsOrSelf(element)) :
       nodeDesignSystem[AncestorsOrSelf(element)[k]] = 0

\* C11: there is one root design system: once made it is never replaced,
\* every getOrCreate() returns it, and responsibleFor returns it for an
\* element with no design system on itself or on an ancestor, whichever of
\* the two is called first.
C11_SingleRoot ==
    [][LocatorStep =>
         /\ rootDesignSystem # 0 => rootDesignSystem' = rootDesignSystem
         /\ (located'.op = "getOrCreate" /\ located'.node = NoNode)
               => /\ located'.result # 0
                  /\ located'.result = rootDesignSystem'
                  /\ returnedFor[NoNode] # 0
                        => located'.result = returnedFor[NoNode]
         /\ (located'.op = "responsibleFor" /\ Unscoped(located'.node))
               => /\ located'.result # 0
                  /\ located'.result = rootDesignSystem'
                  /\ returnedFor[NoNode] # 0
                        => located'.result = returnedFor[NoNode]]_vars

\* C11 witness: getOrCreate() was called, other calls were made, and
\* responsibleFor(u), u without a design system, gave the root design system.
C11_Witness ==
    /\ located = [op |-> "responsibleFor", node |-> "u",
                  result |-> rootDesignSystem]
    /\ Unscoped("u")
    /\ rootDesignSystem # 0
    /\ returnedFor[NoNode] = rootDesignSystem
    /\ locatorCalls >= 3

(* ------------------- callbacks that break the contract ----------------- *)

\* the disambiguation callback gave a result outside the closed set
GaveInvalidResult(call) ==
    \E j \in 1..Len(call.calls) : call.calls[j].result = InvalidResult

\* C12 as claimed: a tryDefineElement call whose disambiguation callback
\* returns a value outside {string, definitionCallbackOnly, ignoreDuplicate}
\* fails with an error, writes no registry entry and makes no entry.
C12_InvalidResultFailsFast ==
    \A k \in 1..Len(invoked) :
       GaveInvalidResult(invoked[k])
          => /\ invoked[k].outcome = "throw"
             /\ ~MapHas(elementTypesByTag, UndefinedTag)
             /\ \A e \in 1..Len(elementDefinitionEntries) :
                   elementDefinitionEntries[e].call # k

\* C13: when the disambiguation callback throws in a tryDefineElement call,
\* register is left, no callback of the pass is invoked and no definition
\* defined, entries made before the failing call included, and what the
\* earlier calls of the pass filed is still in both registries.
C13_ThrowAbortsPass ==
    PolicyThrew(invoked)
       => /\ ~inRegister
          /\ events = <<>>
          /\ \A e \in 1..Len(elementDefinitionEntries) :
                elementDefinitionEntries[e].definition = NullDefinition
          /\ \A k \in 1..Len(invoked) :
                invoked[k].outcome = "define"
                   => /\ MapGet(elementTypesByTag, invoked[k].elementName)
                            = invoked[k].type
                      /\ MapHas(elementTagsByType, invoked[k].type)

\* C13 witness: the first call of the pass filed foo-button and made an
\* entry whose callback defines the element, the second call threw.
C13_Witness ==
    /\ Len(invoked) = 2
    /\ invoked[1].outcome = "define"
    /\ invoked[1].elementName = "foo-button"
    /\ invoked[2].outcome = "throw"
    /\ Len(elementDefinitionEntries) = 1
    /\ elementDefinitionEntries[1].willDefine
    /\ elementDefinitionEntries[1].callback = "defineElement"
    /\ MapHas(elementTypesByTag, "foo-button")

(* ------------------------------- tagFor -------------------------------- *)

\* the types on file as the type of some name
TypesOnFile == {elementTypesByTag[n] : n \in DOMAIN elementTypesByTag}

\* C14: tagFor(type) gives undefined, and does not throw, for every type
\* without an entry in elementTagsByType; a type has no entry when no call
\* filed it: every call for it ended in ignoreDuplicate or in
\* definitionCallbackOnly, or no call was given it, as type or as baseClass.
C14_TagForAbsent ==
    \A t \in ElementTypes :
       /\ ~MapHas(elementTagsByType, t) => TagFor(t) = UndefinedTag
       /\ (t \notin TypesOnFile /\ t \notin filedAsBase)
             => /\ ~MapHas(elementTagsByType, t)
                /\ TagFor(t) = UndefinedTag

\* C14 witness: TypeB is on file as foo-button; a call for TypeA ended in
\* definitionCallbackOnly, and neither TypeA nor FoundationElement, which
\* no call was given, has a tag.
C14_Witness ==
    /\ Len(invoked) = 2
    /\ invoked[1].outcome = "define"
    /\ invoked[1].params.type = TypeB
    /\ invoked[2].outcome = "callbackOnly"
    /\ invoked[2].params.type = TypeA
    /\ TagFor(TypeB) = "foo-button"
    /\ TypeA \notin TypesOnFile
    /\ TagFor(TypeA) = UndefinedTag
    /\ TagFor(FoundationElement) = UndefinedTag

(* ---------------------------- configuration ---------------------------- *)

SetterOps ==
    {"withPrefix", "withShadowRootMode", "withElementDisambiguation",
     "withDesignTokenRoot"}

\* a setter was called by this step
IsSetterCall ==
    \/ located' # located
    \/ designSystems' # designSystems /\ registerCalls' = registerCalls

\* register() was called by this step
IsRegisterCall == registerCalls' = registerCalls + 1

\* the design systems differ at most in the field the setter op assigns,
\* of the design system it was called on
OnlyOwnField(op, system) ==
    CASE op = "withPrefix" ->
            designSystems' = [designSystems EXCEPT
                                 ![system].prefix = designSystems'[system].prefix]
      [] op = "withShadowRootMode" ->
            designSystems' = [designSystems EXCEPT
                                 ![system].shadowRootMode =
                                     designSystems'[system].shadowRootMode]
      [] op = "withElementDisambiguation" ->
            designSystems' = [designSystems EXCEPT
                                 ![system].disambiguate =
                                     designSystems'[system].disambiguate]
      [] op = "withDesignTokenRoot" ->
            designSystems' = [designSystems EXCEPT
                                 ![system].designTokenRoot =
                                     designSystems'[system].designTokenRoot]
      [] OTHER -> FALSE

\* C15: a setter returns the design system it was called on and changes
\* only its own field of it: not the register call executing, its entries,
\* the registries or the platform definitions.  A register call works with
\* the prefix, shadow root mode and disambiguation callback read when it
\* started: every disambiguation result and every entry of the call comes
\* from them, whatever the setters did since.
C15_SettersNotRetroactive ==
    [][/\ IsSetterCall
          => /\ located'.op \in SetterOps
             /\ located'.result \in ConfiguredSystems
             /\ OnlyOwnField(located'.op, located'.result)
             /\ UNCHANGED <<pass, registries, platformDefined, tokenRoots>>
       /\ IsRegisterCall
          => context' =
                [elementPrefix |-> designSystems[thisSystem'].prefix,
                 container |-> designSystems[thisSystem'].container,
                 disambiguate |-> designSystems[thisSystem'].disambiguate,
                 shadowRootMode |-> designSystems[thisSystem'].shadowRootMode]
       /\ IsTryDefine
          => /\ \A j \in 1..Len(TryDefined.calls) :
                   TryDefined.calls[j].result =
                      Disambiguate(context.disambiguate,
                                   TryDefined.calls[j].nameAttempt,
                                   TryDefined.calls[j].typeAttempt,
                                   TryDefined.calls[j].existingType)
             /\ Len(elementDefinitionEntries') > Len(elementDefinitionEntries)
                   => elementDefinitionEntries'
                         [Len(elementDefinitionEntries')].shadowRootMode
                            = context.shadowRootMode]_vars

\* C15 witness: during a register call that started with the default
\* configuration, the setters changed prefix, shadow root mode and
\* disambiguation callback; the second call of the pass collided and was
\* answered by the default callback.
C15_Witness ==
    /\ inRegister
    /\ context.disambiguate = DefaultDisambiguate
    /\ context.shadowRootMode = "undefined"
    /\ context.elementPrefix = "fast"
    /\ designSystems[thisSystem].disambiguate = "rename"
    /\ designSystems[thisSystem].shadowRootMode = "closed"
    /\ designSystems[thisSystem].prefix = "foo"
    /\ Len(invoked) = 2
    /\ invoked[2].outcome = "callbackOnly"
    /\ Len(elementDefinitionEntries) = 2
    /\ elementDefinitionEntries[2].shadowRootMode = "undefined"

\* C16: a design system registers its design token root at most once: in
\* its first register call, and only when the root is not null then.  No
\* later register call registers a root, whatever withDesignTokenRoot set
\* since.  (One design system makes the register calls here.)
C16_TokenRootOnce ==
    [][/\ Len(tokenRoots') <= 1
       /\ tokenRoots' # tokenRoots
          => /\ IsRegisterCall
             /\ ~designSystems[thisSystem'].designTokensInitialized
             /\ designSystems[thisSystem'].designTokenRoot # "null"
             /\ tokenRoots' =
                   Append(tokenRoots, designSystems[thisSystem'].designTokenRoot)
       /\ IsRegisterCall
          => /\ designSystems'[thisSystem'].designTokensInitialized
             /\ (\/ designSystems[thisSystem'].designTokensInitialized
                 \/ designSystems[thisSystem'].designTokenRoot = "null")
                   => tokenRoots' = tokenRoots
       /\ \A system \in 1..Len(designSystems) :
             designSystems[system].designTokensInitialized
                => designSystems'[system].designTokensInitialized]_vars

\* C16 witness: the first register call found the root null and registered
\* nothing, withDesignTokenRoot(x) followed, and the second register call
\* registered nothing either.
C16_Witness ==
    /\ registerCalls = 2
    /\ tokenRoots = <<>>
    /\ designSystems[2].designTokensInitialized
    /\ designSystems[2].designTokenRoot = "x"

(* ----------------------- the disambiguation loop ----------------------- *)

\* the name the j-th call of the disambiguation callback was about
AttemptedName(call, j) ==
    IF j = 1 THEN call.params.name ELSE call.calls[j - 1].result.name

\* a result that ends the loop: not a name, or a name no type is filed under
EndsLoop(result, typesByTag) ==
    \/ result = IgnoreDuplicate
    \/ result = DefinitionCallbackOnly
    \/ result.kind = "string" /\ ~MapHas(typesByTag, result.name)

\* C17: the loop of tryDefineElement calls the disambiguation callback with
\* (the name now attempted, the new type, the type on file under that name),
\* goes on while the result is a name with a type on file and ends at the
\* first result that is ignoreDuplicate, definitionCallbackOnly or a free
\* name; the callback is not called at all when the given name is free.  The
\* default callback is called once; one renaming to name + "-2" at most once
\* for each name on file.
C17_LoopTerminates ==
    [][IsTryDefine
         => LET call == TryDefined
                n == Len(call.calls)
            IN  /\ n = 0 <=> ~MapHas(elementTypesByTag, call.params.name)
                /\ \A j \in 1..n :
                      /\ call.calls[j].nameAttempt = AttemptedName(call, j)
                      /\ call.calls[j].typeAttempt = call.params.type
                      /\ MapHas(elementTypesByTag, call.calls[j].nameAttempt)
                      /\ call.calls[j].existingType =
                            elementTypesByTag[call.calls[j].nameAttempt]
                      /\ j = n <=> EndsLoop(call.calls[j].result,
                                            elementTypesByTag)
                /\ (n > 0 /\ context.disambiguate = DefaultDisambiguate)
                      => n = 1
                /\ context.disambiguate = "rename"
                      => /\ n <= Cardinality(DOMAIN elementTypesByTag)
                         /\ call.outcome = "define"]_vars

\* C17 witness: with foo-button and foo-button-2 on file, the renaming
\* callback was called twice and the loop ended at foo-button-2-2.
C17_Witness ==
    /\ inRegister
    /\ context.disambiguate = "rename"
    /\ invoked # <<>>
    /\ Len(invoked[Len(invoked)].calls) = 2
    /\ invoked[Len(invoked)].calls[1].nameAttempt = "foo-button"
    /\ invoked[Len(invoked)].calls[2].nameAttempt = "foo-button-2"
    /\ invoked[Len(invoked)].elementName = "foo-button-2-2"

(* --------------------- subclasses and base classes --------------------- *)

\* the classes the registries know
KnownTypes ==
    DOMAIN elementTagsByType \cup TypesOnFile

\* C18 as claimed: a call that files a name for a type that has a tag on
\* file already, or for FoundationElement, files a new subclass instead of
\* the type: the name maps to the subclass and the subclass to the name,
\* tagFor(the type given) is what it was, and FoundationElement itself is
\* never the type on file of a name.
C18_SubclassFiled ==
    [][/\ FoundationElement \notin
             {elementTypesByTag'[n] : n \in DOMAIN elementTypesByTag'}
       /\ (/\ IsTryDefine
            /\ TryDefined.outcome = "define"
            /\ \/ MapHas(elementTagsByType, TryDefined.params.type)
               \/ TryDefined.params.type = FoundationElement)
             => /\ TryDefined.type # TryDefined.params.type
                /\ TryDefined.type \notin KnownTypes
                /\ MapGet(elementTypesByTag', TryDefined.elementName)
                      = TryDefined.type
                /\ TagGet(elementTagsByType', TryDefined.type)
                      = TryDefined.elementName
                /\ TagGet(elementTagsByType', TryDefined.params.type)
                      = TagGet(elementTagsByType, TryDefined.params.type)]_vars

\* C19: after a call that was given a baseClass and filed a name,
\* tagFor(baseClass) is that name, renamed or not; a call that ended in
\* definitionCallbackOnly or ignoreDuplicate leaves tagFor(baseClass) as it
\* was.
C19_BaseClassFiled ==
    [][(IsTryDefine /\ TryDefined.params.baseClass # Undefined)
         => IF TryDefined.outcome = "define"
            THEN /\ MapHas(elementTagsByType', TryDefined.params.baseClass)
                 /\ TagGet(elementTagsByType', TryDefined.params.baseClass)
                       = TryDefined.elementName
            ELSE /\ MapHas(elementTagsByType', TryDefined.params.baseClass)
                       <=> MapHas(elementTagsByType,
                                  TryDefined.params.baseClass)
                 /\ TagGet(elementTagsByType', TryDefined.params.baseClass)
                       = TagGet(elementTagsByType,
                                TryDefined.params.baseClass)]_vars

\* C19 witness: foo-button is taken; a call for foo-button with baseClass
\* TypeA was renamed and filed TypeA under foo-button-2.
C19_Witness ==
    /\ inRegister
    /\ invoked # <<>>
    /\ invoked[Len(invoked)].params.baseClass = TypeA
    /\ invoked[Len(invoked)].params.name = "foo-button"
    /\ invoked[Len(invoked)].outcome = "define"
    /\ invoked[Len(invoked)].elementName = "foo-button-2"
    /\ TagFor(TypeA) = "foo-button-2"

(* ----------------------- definitionCallbackOnly ------------------------ *)

\* the events of kind `kind` of the register call that are about call c
EventsOf(log, kind, c) ==
    {e \in 1..Len(log) : log[e].kind = kind /\ log[e].call = c}

\* the calls of the register call that ended in definitionCallbackOnly
CallbackOnlyIn(made) ==
    {c \in 1..Len(made) : made[c].outcome = "callbackOnly"}

\* C20: a call that ends in definitionCallbackOnly, at once or after
\* renames, for the type on file or another, writes to neither registry and
\* pushes one entry, not to be defined, with the name last attempted and the
\* type given; when the loop over the entries is over its callback has run
\* once and no definition was defined for it, also when the callback filled
\* entry.definition.
C20_CallbackOnly ==
    [][/\ (IsTryDefine /\ TryDefined.outcome = "callbackOnly")
          => /\ elementTypesByTag' = elementTypesByTag
             /\ elementTagsByType' = elementTagsByType
             /\ Len(elementDefinitionEntries')
                   = Len(elementDefinitionEntries) + 1
             /\ LET entry ==
                       elementDefinitionEntries'[Len(elementDefinitionEntries')]
                    last == TryDefined.calls[Len(TryDefined.calls)]
                IN  /\ ~entry.willDefine
                    /\ entry.name = last.nameAttempt
                    /\ entry.type = TryDefined.params.type
                    /\ entry.call = Len(invoked')
                    /\ entry.definition = NullDefinition
             /\ platformDefined' = platformDefined
       /\ \A c \in CallbackOnlyIn(invoked') :
             /\ Cardinality({k \in 1..Len(elementDefinitionEntries') :
                                elementDefinitionEntries'[k].call = c}) = 1
             /\ EventsOf(events', "define", c) = {}
             /\ Cardinality(EventsOf(events', "callback", c)) <= 1
             /\ (inRegister' /\ cursor' > Len(elementDefinitionEntries')
                   /\ Len(invoked') = Len(registrations'))
                   => Cardinality(EventsOf(events', "callback", c)) = 1
             /\ \A d \in 1..Len(platformDefined') :
                   \/ d <= Len(platformDefined)
                   \/ \A k \in 1..Len(elementDefinitionEntries') :
                         elementDefinitionEntries'[k].call = c
                            => elementDefinitionEntries'[k].definition
                                  # platformDefined'[d]
                               \/ elementDefinitionEntries'[k].definition
                                     = NullDefinition
      ]_vars

\* C20 witness: the loop over the entries is over; the second call of the
\* pass was renamed, then answered definitionCallbackOnly, its callback
\* filled entry.definition and nothing was defined for it.
C20_Witness ==
    /\ PassOver
    /\ Len(invoked) = 2
    /\ invoked[2].outcome = "callbackOnly"
    /\ Len(invoked[2].calls) = 2
    /\ Len(elementDefinitionEntries) = 2
    /\ elementDefinitionEntries[2].call = 2
    /\ elementDefinitionEntries[2].name = "foo-button-2"
    /\ elementDefinitionEntries[2].definition # NullDefinition
    /\ Cardinality(EventsOf(events, "callback", 2)) = 1
    /\ EventsOf(events, "define", 2) = {}

(* ----------------------- the tag-to-type registry ---------------------- *)

\* C21: a name of elementTypesByTag is written once: no step changes or
\* removes the type on file for a name, under any disambiguation result,
\* renames that meet the name included; only a tryDefineElement call that
\* ends needing a definition writes, one name, and that name had no type on
\* file when it was written.
C21_TagWrittenOnce ==
    [][/\ \A n \in DOMAIN elementTypesByTag :
             /\ MapHas(elementTypesByTag', n)
             /\ elementTypesByTag'[n] = elementTypesByTag[n]
       /\ IF IsTryDefine /\ TryDefined.outcome = "define"
          THEN /\ ~MapHas(elementTypesByTag, TryDefined.elementName)
               /\ DOMAIN elementTypesByTag' =
                     DOMAIN elementTypesByTag \cup {TryDefined.elementName}
               /\ elementTypesByTag'[TryDefined.elementName]
                     = TryDefined.type
          ELSE elementTypesByTag' = elementTypesByTag]_vars

\* C21 witness: foo-card is on file for TypeA; a call for foo-card was
\* renamed to foo-card-2 and filed there, and foo-card is still TypeA's.
C21_Witness ==
    /\ inRegister
    /\ invoked # <<>>
    /\ invoked[Len(invoked)].outcome = "define"
    /\ Len(invoked[Len(invoked)].calls) = 1
    /\ invoked[Len(invoked)].calls[1].nameAttempt = "foo-card"
    /\ invoked[Len(invoked)].calls[1].existingType = TypeA
    /\ invoked[Len(invoked)].elementName = "foo-card-2"
    /\ MapGet(elementTypesByTag, "foo-card") = TypeA
    /\ MapGet(elementTypesByTag, "foo-card-2") = invoked[Len(invoked)].type

(* --------------------------- materialization --------------------------- *)

\* C22: the loop over the entries defines an entry if and only if it is to
\* be defined and its callback filled entry.definition, and after the
\* entry's own callback ran; what it defines is the entry's name and type,
\* which elementTypesByTag has on file then.  An entry to be defined whose
\* callback left entry.definition null is not defined and stays on file.
\* Nothing is defined outside the loop.
C22_MaterializedIff ==
    [][IF IsDefineEntry
       THEN LET entry == elementDefinitionEntries'[cursor]
                filled == entry.definition # NullDefinition
                ran == Append(events, [kind |-> "callback",
                                       call |-> entry.call])
            IN  /\ filled <=> entry.callback = "defineElement"
                /\ IF entry.willDefine /\ filled
                   THEN /\ platformDefined' =
                              Append(platformDefined,
                                     [name |-> entry.name,
                                      type |-> entry.type])
                        /\ events' = Append(ran, [kind |-> "define",
                                                  call |-> entry.call])
                        /\ MapGet(elementTypesByTag', entry.name)
                              = entry.type
                   ELSE /\ platformDefined' = platformDefined
                        /\ events' = ran
                /\ entry.willDefine
                      => /\ MapGet(elementTypesByTag', entry.name)
                               = entry.type
                         /\ MapHas(elementTagsByType', entry.type)
       ELSE platformDefined' = platformDefined]_vars

\* C22 witness: the loop over the entries is over; both entries were to be
\* defined, the callback of the first filled entry.definition and it was
\* defined, the callback of the second did not and it was not, and both are
\* on file.
C22_Witness ==
    /\ PassOver
    /\ Len(elementDefinitionEntries) = 2
    /\ elementDefinitionEntries[1].willDefine
    /\ elementDefinitionEntries[1].definition # NullDefinition
    /\ elementDefinitionEntries[2].willDefine
    /\ elementDefinitionEntries[2].definition = NullDefinition
    /\ events = <<[kind |-> "callback", call |-> 1],
                  [kind |-> "define", call |-> 1],
                  [kind |-> "callback", call |-> 2]>>
    /\ MapGet(elementTypesByTag, elementDefinitionEntries[2].name)
          = elementDefinitionEntries[2].type
    /\ platformDefined # <<>>
    /\ platformDefined[Len(platformDefined)].name
          = elementDefinitionEntries[1].name

====
